---- MODULE Spec2Model ----
(***************************************************************************)
(* Model of the uptime monitor: the monitor engine (one check loop per     *)
(* website publishing CheckResults on resultChan), the two consumers of    *)
(* resultChan (MonitorEngine.processResults and the result handling        *)
(* goroutine of main), the REST handlers that change the registry, and the *)
(* notification manager (throttle table, bounded event queue, consumer).   *)
(***************************************************************************)
EXTENDS Integers, Sequences, FiniteSets, TLC

(* ------------------------------ bounds --------------------------------- *)

\* Website identities: w1 is loaded from storage at startup, w2 is created
\* later through the create endpoint.
Ids == {"w1", "w2"}

LoadedIds == {"w1"}

\* Number of checks one monitoring loop performs at most.
MaxChecks == 3

\* Capacity of resultChan (make(chan CheckResult, 1000)), scaled down.
ResultChanCap == 2

\* Capacity of eventQueue (make(chan StatusChangeEvent, 100)), scaled down.
EventQueueCap == 1

\* Last instant of the clock, in minutes.
MaxTime == 6

\* Number of SendStatusChange calls made by an arbitrary caller.
MaxSends == 3

\* Number of history entries appended to one history file.
MaxAppends == 1002

\* Number of REST requests answered with a recorded status code.
MaxRequests == 2

(* --------------------------- program constants ------------------------- *)

\* 5*time.Minute, in minutes.
ThrottleWindow == 5

Statuses == {"up", "down"}

\* Absent entry of the previousStatus map.
NoStatus == "none"

\* Absent entry of the lastNotified map.
NoTime == -1

\* `IntervalSeconds < 30` / `IntervalSeconds >= 30` in Post and Put.
MinInterval == 30

\* `request.IntervalSeconds = 60 // Default to 60 seconds`
DefaultInterval == 60

\* interval_seconds of a request; 0 is a request that does not set it.
ReqIntervals == {0, 10, 29, 30, 45}

(* ------------------------------- state --------------------------------- *)

VARIABLES
    websites,        \* MonitorEngine.websites: id -> record (present = key in map)
    running,         \* MonitorEngine.running
    stopChan,        \* MonitorEngine.stopChan: "open" or "closed"
    resultChan,      \* MonitorEngine.resultChan: queue of CheckResult
    resultChanClosed,\* MonitorEngine.resultChan has been closed
    inflight,        \* number of checkWebsite calls in progress, per id
    pc,              \* position of the monitorWebsite goroutine of each id
    mainPc,          \* position of main: "boot", "serving", "stopping",
                     \* "stopped", "exited"
    previousStatus,  \* previousStatus map of main's result handling goroutine
    history,         \* storage: history file of each id (statuses, in order)
    eventQueue,      \* NotificationManager.eventQueue
    lastNotified,    \* NotificationManager.lastNotified
    nmRunning,       \* NotificationManager.running
    nmStopChan,      \* NotificationManager.stopChan: "open" or "closed"
    nmLoop,          \* position of the processEvents goroutine
    now,             \* wall clock, minutes
    published,       \* history variable: statuses sent on resultChan, per id
    aggSeen,         \* history variable: outcomes <<id, n>> received by main
    notified,        \* history variable: outcomes <<id, n>> passed to SendStatusChange
    sendLog,         \* history variable: SendStatusChange calls: target, time,
                     \* branch taken, throttle entry and queue length found
    handled,         \* history variable: calls whose event reached handleStatusChange
    addedLive,       \* history variable: ids added while the engine was running
    removed,         \* history variable: ids for which RemoveWebsite has returned
    queuedAtStop,    \* history variable: outcomes <<id, n>> that were on
                     \* resultChan when monitorEngine.Stop() was called
    stored,          \* records of the websites file as read at startup
    routes,          \* NotificationEmails / SlackWebhook of each website
    config,          \* NotificationManager.config (SMTPHost, SMTPUsername set)
    deliveries,      \* sendEmailNotification / sendSlackNotification goroutines
    mutex,           \* MonitorEngine.mutex: writer and readers holding it
    unit,            \* position of each goroutine that touches a website record
    probe,           \* last checkWebsite call: response and results sent
    uptime,          \* last CalculateUptime call: history, hours and result
    ticker,          \* period of the ticker monitorWebsite created, per id
    oldLoops,        \* monitorWebsite goroutines of an earlier Start that have
                     \* not returned, per id: in checkWebsite, at the select
    oldEvents,       \* processEvents goroutines of an earlier Start that have
                     \* not returned
    senders,         \* position of each concurrent SendStatusChange call
    reply,           \* history variable: last REST request and its status code
    saved,           \* records of the websites file when main starts serving
    hfile            \* one history file: entries and number of appends

engineVars == <<websites, running, stopChan, resultChan, resultChanClosed,
               inflight, pc>>
aggVars    == <<previousStatus, history, aggSeen, notified>>
nmVars     == <<eventQueue, lastNotified, sendLog>>
nmCtlVars  == <<nmRunning, nmStopChan, nmLoop, handled>>
ghostVars  == <<published, addedLive, removed, queuedAtStop>>
sinkVars   == <<routes, config>>
raceVars   == <<mutex, unit>>
baseAux    == <<stored, routes, config, deliveries, mutex, unit, probe, uptime>>
loopVars   == <<ticker, oldLoops, oldEvents>>
callVars   == <<senders, reply, saved, hfile>>
extVars    == <<loopVars, callVars>>
auxVars    == <<baseAux, extVars>>

vars == <<websites, running, stopChan, resultChan, resultChanClosed, inflight,
          pc, mainPc, previousStatus, history, eventQueue, lastNotified,
          nmRunning, nmStopChan, nmLoop, now, published, aggSeen, notified,
          sendLog, handled, addedLive, removed, queuedAtStop, stored, routes,
          config, deliveries, mutex, unit, probe, uptime, ticker, oldLoops,
          oldEvents, senders, reply, saved, hfile>>

(* ------------------------------ helpers -------------------------------- *)

\* Positions of main at which the process runs its goroutines and serves
\* requests: after the start-up and before os.Exit.
Alive == {"serving", "stopping", "stopped"}

\* A key that is not in MonitorEngine.websites.
Absent == [present |-> FALSE, Enabled |-> FALSE, Status |-> "unknown",
           IntervalSeconds |-> 0]

\* Faulty variant: the requested interval is stored as it is.
CreateInterval_Unchecked(iv) == iv

\* WebsiteController.Post: `if request.IntervalSeconds < 30 { ... = 60 }`
CreateInterval(iv) == IF iv < MinInterval THEN DefaultInterval ELSE iv

\* Faulty variant: the requested interval is stored as it is.
UpdateInterval_Unchecked(old, iv) == iv

\* WebsiteController.Put: `if request.IntervalSeconds >= 30 { website.IntervalSeconds = ... }`
UpdateInterval(old, iv) == IF iv >= MinInterval THEN iv ELSE old

\* The record built by WebsiteController.Post.
NewWebsite(iv) == [present |-> TRUE, Enabled |-> TRUE, Status |-> "unknown",
                   IntervalSeconds |-> CreateInterval(iv)]

\* CheckResult; n is the position of the outcome among those of its website
\* (it stands for the Timestamp field).
CheckResult(id, status, n) == [WebsiteID |-> id, Status |-> status, n |-> n]

InChan(id) == \E i \in 1..Len(resultChan) : resultChan[i].WebsiteID = id

\* Faulty variant: the status is stored without the `exists` test, which
\* brings a record of a missing id into the map.
UpdateWebsiteStatus_Recreate(ws, id, status) ==
    [ws EXCEPT ![id].present = TRUE, ![id].Status = status]

\* MonitorEngine.UpdateWebsiteStatus
UpdateWebsiteStatus(ws, id, status) ==
    IF ws[id].present THEN [ws EXCEPT ![id].Status = status] ELSE ws

\* Faulty variant: records a transition when there is no previous entry.
StatusChanged_NoExists(prev, status) == prev # status

\* main: `prevStatus, exists := previousStatus[id]; exists && prevStatus != result.Status`
StatusChanged(prev, status) == prev # NoStatus /\ prev # status

\* Faulty variant: never throttles.
Throttled_Never(last, t) == FALSE

\* Faulty variant: throttles for ever once a notification was recorded.
Throttled_Forever(last, t) == last # NoTime

\* SendStatusChange: `exists && time.Since(lastNotified) < 5*time.Minute`
Throttled(last, t) == last # NoTime /\ t - last < ThrottleWindow

\* Faulty variant: blocks instead of taking the default branch: the event is
\* queued whatever the queue holds.
SendResult_NoDefault(last, t, qlen) ==
    IF Throttled(last, t) THEN "throttled" ELSE "queued"

\* SendStatusChange: the branch taken by one call.
SendResult(last, t, qlen) ==
    IF Throttled(last, t) THEN "throttled"
    ELSE IF qlen < EventQueueCap THEN "queued"
    ELSE "dropped"

\* Faulty variant: records the time of every call, throttled ones too.
LastNotifiedAfter_Always(ln, id, t, res) ==
    IF res \in {"queued", "throttled"} THEN [ln EXCEPT ![id] = t] ELSE ln

\* SendStatusChange: `nm.lastNotified[event.WebsiteID] = time.Now()` in the
\* send branch of the select only.
LastNotifiedAfter(ln, id, t, res) ==
    IF res = "queued" THEN [ln EXCEPT ![id] = t] ELSE ln

\* StatusChangeEvent; k is the number of the SendStatusChange call. Emails
\* and SlackWebhook are copied from the website (TRUE: at least one address,
\* a non-empty URL).
StatusChangeEvent(id, old, new, k) ==
    [WebsiteID |-> id, OldStatus |-> old, NewStatus |-> new, k |-> k,
     Emails |-> routes[id].Emails, SlackWebhook |-> routes[id].SlackWebhook]

\* NotificationManager.SendStatusChange
SendStatusChange(id, old, new) ==
    LET res == SendResult(lastNotified[id], now, Len(eventQueue))
        k   == Len(sendLog) + 1
    IN  /\ eventQueue' = IF res = "queued"
                         THEN Append(eventQueue, StatusChangeEvent(id, old, new, k))
                         ELSE eventQueue
        /\ lastNotified' = LastNotifiedAfter(lastNotified, id, now, res)
        /\ sendLog' = Append(sendLog,
                              [WebsiteID |-> id, at |-> now, res |-> res,
                               last |-> lastNotified[id],
                               qlen |-> Len(eventQueue)])

(* ------------------------------- Init ---------------------------------- *)

(* --------------------------- websites file ----------------------------- *)

\* Values of interval_seconds found in a websites file.
StoredIntervals == {0, 10, 30, 60}

\* What a websites file says of one website; ok: the record is well-formed
\* JSON of the expected types.
StoredBody == [ok : BOOLEAN, IntervalSeconds : StoredIntervals,
               Enabled : BOOLEAN]

\* The record of website id in a websites file.
StoredRecord(id, b) ==
    [ID |-> id, ok |-> b.ok, IntervalSeconds |-> b.IntervalSeconds,
     Enabled |-> b.Enabled]

\* Websites files: at most one record per id.
StoredFiles ==
    UNION {{{StoredRecord(id, f[id]) : id \in S} : f \in [S -> StoredBody]} :
           S \in SUBSET Ids}

\* The file of a previous run: well-formed records with the default interval.
SavedFile(ids, en) ==
    {[ID |-> id, ok |-> TRUE, IntervalSeconds |-> DefaultInterval,
      Enabled |-> en[id]] : id \in ids}

\* Storage.LoadWebsites: json.Unmarshal of the whole list; any record it
\* cannot decode makes the call return an error and no website.
LoadWebsites(file) ==
    IF \E r \in file : ~r.ok
    THEN [err |-> TRUE, websites |-> {}]
    ELSE [err |-> FALSE, websites |-> file]

\* main: the registry after the loading of the stored websites. Fields are
\* taken as stored, without validation. (The sample websites main adds when
\* nothing was loaded have fresh ids, outside Ids.)
Loaded(file) ==
    LET l == LoadWebsites(file)
    IN  [id \in Ids |->
           IF \E r \in l.websites : r.ID = id
           THEN LET r == CHOOSE x \in l.websites : x.ID = id
                IN  [present |-> TRUE, Enabled |-> r.Enabled,
                     Status |-> "unknown",
                     IntervalSeconds |-> r.IntervalSeconds]
           ELSE Absent]

\* The sample websites main adds when no website was loaded (one record
\* stands for the list), as SaveWebsites writes them.
SampleWebsites ==
    {[ID |-> "website_n", ok |-> TRUE, IntervalSeconds |-> DefaultInterval,
      Enabled |-> TRUE]}

\* main: the websites file after the start-up: `if len(websites) == 0` the
\* samples are added and SaveWebsites replaces the file, unless the write
\* fails.
AfterStartup(file) ==
    IF LoadWebsites(file).websites = {}
    THEN {SampleWebsites, file}
    ELSE {file}

(* ------------------------- notification routing ------------------------ *)

\* NotificationEmails (TRUE: at least one address) and SlackWebhook (TRUE:
\* non-empty) of a website.
Routes == [Emails : BOOLEAN, SlackWebhook : BOOLEAN]

NoRoute == [Emails |-> FALSE, SlackWebhook |-> FALSE]

\* NotificationConfig: SMTPHost and SMTPUsername non-empty.
Configs == [SMTPHost : BOOLEAN, SMTPUsername : BOOLEAN]

NoConfig == [SMTPHost |-> FALSE, SMTPUsername |-> FALSE]

\* Faulty variant: the deliveries are made in line, and the email one only.
handleStatusChange_EmailFirst(event) ==
    IF event.Emails /\ config.SMTPHost
    THEN {[k |-> event.k, sink |-> "email", st |-> "started"]}
    ELSE IF event.SlackWebhook
         THEN {[k |-> event.k, sink |-> "slack", st |-> "started"]}
         ELSE {}

\* NotificationManager.handleStatusChange: the goroutines it starts.
handleStatusChange(event) ==
    (IF event.Emails /\ config.SMTPHost
     THEN {[k |-> event.k, sink |-> "email", st |-> "started"]}
     ELSE {})
    \cup
    (IF event.SlackWebhook
     THEN {[k |-> event.k, sink |-> "slack", st |-> "started"]}
     ELSE {})

(* ---------------------- concurrent callers of the API ------------------ *)

\* Goroutines that call SendStatusChange at the same time.
Callers == {"a", "b"}

NoCall == [at |-> "idle", id |-> "none", last |-> NoTime, res |-> "none"]

\* No REST request has been answered yet.
NoReply == [n |-> 0, op |-> "none", id |-> "none", status |-> 0]

(* --------------------- goroutines on a website record ------------------ *)

\* The Put handler, the tick branch of monitorWebsite with checkWebsite, and
\* processResults.
Units == {"put", "loop", "results"}

Fields == {"Enabled", "URL", "Status"}

Idle == [at |-> "idle", id |-> "none", field |-> "none"]

Unlocked == [writer |-> "none", readers |-> {}]

(* ------------------------------- Init ---------------------------------- *)

\* State after NewMonitorEngine, NewNotificationManager and the loading of
\* the websites file (main, before notificationManager.Start()).
Boot(file, rt, cfg) ==
    /\ stored = file
    /\ websites = Loaded(file)
    /\ routes = rt
    /\ config = cfg
    /\ deliveries = {}
    /\ mutex = Unlocked
    /\ unit = [u \in Units |-> Idle]
    /\ probe = <<>>
    /\ uptime = <<>>
    /\ ticker = [id \in Ids |-> 0]
    /\ oldLoops = [id \in Ids |-> [check |-> 0, select |-> 0]]
    /\ oldEvents = 0
    /\ senders = [c \in Callers |-> NoCall]
    /\ reply = NoReply
    /\ saved \in AfterStartup(file)
    /\ hfile = [n |-> 0, entries |-> <<>>]
    /\ running = FALSE
    /\ stopChan = "open"
    /\ resultChan = <<>>
    /\ resultChanClosed = FALSE
    /\ inflight = [id \in Ids |-> 0]
    /\ pc = [id \in Ids |-> "none"]
    /\ mainPc = "boot"
    /\ previousStatus = [id \in Ids |-> NoStatus]
    /\ history = [id \in Ids |-> <<>>]
    /\ eventQueue = <<>>
    /\ lastNotified = [id \in Ids |-> NoTime]
    /\ nmRunning = FALSE
    /\ nmStopChan = "open"
    /\ nmLoop = "none"
    /\ now = 0
    /\ published = [id \in Ids |-> <<>>]
    /\ aggSeen = {}
    /\ notified = {}
    /\ sendLog = <<>>
    /\ handled = <<>>
    /\ addedLive = {}
    /\ removed = {}
    /\ queuedAtStop = {}

\* The websites of LoadedIds were saved by a previous run, without
\* notification routing; no SMTP settings.
Init ==
    \E en \in [LoadedIds -> BOOLEAN] :
        Boot(SavedFile(LoadedIds, en), [id \in Ids |-> NoRoute], NoConfig)

(* ------------------------- monitor engine ------------------------------ *)

\* MonitorEngine.Start: sets running and launches processResults and one
\* monitorWebsite goroutine per enabled website; that goroutine creates its
\* ticker from the interval the record has then and begins with its initial
\* check. Goroutines of an earlier Start that have not returned go on.
EngineStart ==
    /\ ~running
    /\ running' = TRUE
    /\ pc' = [id \in Ids |->
                IF websites[id].present /\ websites[id].Enabled
                THEN "check" ELSE pc[id]]
    /\ inflight' = [id \in Ids |->
                      IF websites[id].present /\ websites[id].Enabled
                      THEN 1 ELSE inflight[id]]
    /\ ticker' = [id \in Ids |->
                    IF websites[id].present /\ websites[id].Enabled
                    THEN websites[id].IntervalSeconds ELSE ticker[id]]
    /\ oldLoops' = [id \in Ids |->
                      IF websites[id].present /\ websites[id].Enabled
                      THEN [check  |-> oldLoops[id].check + inflight[id],
                            select |-> oldLoops[id].select
                                       + IF pc[id] = "select" THEN 1 ELSE 0]
                      ELSE oldLoops[id]]

\* Faulty variant: running is cleared but stopChan is not closed.
EngineStop_NoClose ==
    /\ running
    /\ running' = FALSE
    /\ stopChan' = stopChan

\* MonitorEngine.Stop: clears running and closes stopChan; the close of a
\* closed channel panics.
EngineStop ==
    /\ running
    /\ running' = FALSE
    /\ stopChan' = IF stopChan = "open" THEN "closed" ELSE "panic"

\* Faulty variant: a check waits until no check of another website is in
\* progress (one worker for all websites).
Check_Serial(id, status) ==
    /\ mainPc # "exited"
    /\ inflight[id] > 0
    /\ \A o \in Ids \ {id} : inflight[o] = 0
    /\ Len(resultChan) < ResultChanCap
    /\ resultChan' = Append(resultChan,
                            CheckResult(id, status, Len(published[id]) + 1))
    /\ published' = [published EXCEPT ![id] = Append(@, status)]
    /\ inflight' = [inflight EXCEPT ![id] = @ - 1]
    /\ pc' = [pc EXCEPT ![id] = IF @ = "check" THEN "select" ELSE @]
    /\ UNCHANGED <<websites, running, stopChan, resultChanClosed, mainPc,
                   aggVars, nmVars, nmCtlVars, now, auxVars, addedLive, removed,
                   queuedAtStop>>

\* Faulty variant: the send does not wait; the outcome is discarded when the
\* channel is full.
Check_DropWhenFull(id, status) ==
    /\ mainPc # "exited"
    /\ inflight[id] > 0
    /\ resultChan' = IF Len(resultChan) < ResultChanCap
                     THEN Append(resultChan,
                                 CheckResult(id, status, Len(published[id]) + 1))
                     ELSE resultChan
    /\ published' = [published EXCEPT ![id] = Append(@, status)]
    /\ inflight' = [inflight EXCEPT ![id] = @ - 1]
    /\ pc' = [pc EXCEPT ![id] = IF @ = "check" THEN "select" ELSE @]
    /\ UNCHANGED <<websites, running, stopChan, resultChanClosed, mainPc,
                   aggVars, nmVars, nmCtlVars, now, auxVars, addedLive, removed,
                   queuedAtStop>>

\* MonitorEngine.checkWebsite: the probe returns and its outcome is sent on
\* resultChan; the send waits while the channel is full.
Check(id, status) ==
    /\ mainPc # "exited"
    /\ inflight[id] > 0
    /\ Len(resultChan) < ResultChanCap
    /\ resultChan' = Append(resultChan,
                            CheckResult(id, status, Len(published[id]) + 1))
    /\ published' = [published EXCEPT ![id] = Append(@, status)]
    /\ inflight' = [inflight EXCEPT ![id] = @ - 1]
    /\ pc' = [pc EXCEPT ![id] = IF @ = "check" THEN "select" ELSE @]
    /\ UNCHANGED <<websites, running, stopChan, resultChanClosed, mainPc,
                   aggVars, nmVars, nmCtlVars, now, auxVars, addedLive, removed,
                   queuedAtStop>>

\* Faulty variant: the check is started in a goroutine of its own and the
\* loop goes back to its select at once.
Tick_Async(id) ==
    /\ mainPc # "exited"
    /\ pc[id] = "select"
    /\ IF websites[id].present /\ websites[id].Enabled
       THEN /\ Len(published[id]) + inflight[id] < MaxChecks
            /\ pc' = pc
            /\ inflight' = [inflight EXCEPT ![id] = @ + 1]
       ELSE /\ pc' = [pc EXCEPT ![id] = "done"]
            /\ UNCHANGED inflight
    /\ UNCHANGED <<websites, running, stopChan, resultChan, resultChanClosed,
                   mainPc, aggVars, nmVars, nmCtlVars, now, auxVars, ghostVars>>

\* Faulty variant: the tick branch checks a registered website whether it is
\* enabled or not.
Tick_IgnoreEnabled(id) ==
    /\ mainPc # "exited"
    /\ pc[id] = "select"
    /\ IF websites[id].present
       THEN /\ Len(published[id]) + inflight[id] < MaxChecks
            /\ pc' = [pc EXCEPT ![id] = "check"]
            /\ inflight' = [inflight EXCEPT ![id] = @ + 1]
       ELSE /\ pc' = [pc EXCEPT ![id] = "done"]
            /\ UNCHANGED inflight
    /\ UNCHANGED <<websites, running, stopChan, resultChan, resultChanClosed,
                   mainPc, aggVars, nmVars, nmCtlVars, now, auxVars, ghostVars>>

\* monitorWebsite, `case <-ticker.C`: check again if the website is still
\* registered and enabled, return otherwise.
Tick(id) ==
    /\ mainPc # "exited"
    /\ pc[id] = "select"
    /\ IF websites[id].present /\ websites[id].Enabled
       THEN /\ Len(published[id]) + inflight[id] < MaxChecks
            /\ pc' = [pc EXCEPT ![id] = "check"]
            /\ inflight' = [inflight EXCEPT ![id] = @ + 1]
       ELSE /\ pc' = [pc EXCEPT ![id] = "done"]
            /\ UNCHANGED inflight
    /\ UNCHANGED <<websites, running, stopChan, resultChan, resultChanClosed,
                   mainPc, aggVars, nmVars, nmCtlVars, now, auxVars, ghostVars>>

\* monitorWebsite, `case <-me.stopChan`.
StopObserved(id) ==
    /\ mainPc # "exited"
    /\ pc[id] = "select"
    /\ stopChan = "closed"
    /\ pc' = [pc EXCEPT ![id] = "done"]
    /\ UNCHANGED <<websites, running, stopChan, resultChan, resultChanClosed,
                   inflight, mainPc, aggVars, nmVars, nmCtlVars, now, auxVars,
                   ghostVars>>

\* One iteration of MonitorEngine.processResults: receive a result and
\* update the registry.
ProcessResults ==
    /\ mainPc \in Alive
    /\ resultChan # <<>>
    /\ LET r == Head(resultChan)
       IN  websites' = UpdateWebsiteStatus(websites, r.WebsiteID, r.Status)
    /\ resultChan' = Tail(resultChan)
    /\ UNCHANGED <<running, stopChan, resultChanClosed, inflight, pc, mainPc,
                   aggVars, nmVars, nmCtlVars, now, auxVars, ghostVars>>

(* ------------------------------ storage -------------------------------- *)

\* `history = history[len(history)-1000:]`
HistoryLimit == 1000

\* Storage.SaveHistory, `if data, err := ioutil.ReadFile(historyFile); err ==
\* nil { json.Unmarshal(data, &history) }`: the history the call starts from;
\* it is empty when the file cannot be read.
ReadHistory(file, readOk) == IF readOk THEN file ELSE <<>>

\* Storage.SaveHistory, when it succeeds.
SaveHistory(h, status) ==
    LET a == Append(h, status)
    IN  IF Len(a) > HistoryLimit
        THEN SubSeq(a, Len(a) - HistoryLimit + 1, Len(a))
        ELSE a

(* ------------------- result handling goroutine of main ----------------- *)

\* Faulty variant: when the history append fails the iteration ends there
\* (`continue`).
MainHandle_SkipOnError ==
    /\ mainPc \in Alive
    /\ resultChan # <<>>
    /\ LET r    == Head(resultChan)
           id   == r.WebsiteID
           prev == previousStatus[id]
       IN  /\ resultChan' = Tail(resultChan)
           /\ aggSeen' = aggSeen \cup {<<id, r.n>>}
           /\ \E ok \in BOOLEAN :
                IF ok
                THEN /\ history' = [history EXCEPT
                                       ![id] = SaveHistory(@, r.Status)]
                     /\ IF StatusChanged(prev, r.Status)
                           /\ websites[id].present
                        THEN /\ SendStatusChange(id, prev, r.Status)
                             /\ notified' = notified \cup {<<id, r.n>>}
                        ELSE UNCHANGED <<nmVars, notified>>
                     /\ previousStatus' =
                          [previousStatus EXCEPT ![id] = r.Status]
                ELSE UNCHANGED <<history, nmVars, notified, previousStatus>>
    /\ UNCHANGED <<websites, running, stopChan, resultChanClosed, inflight, pc,
                   mainPc, nmCtlVars, now, auxVars, ghostVars>>

\* One iteration of `for result := range monitorEngine.GetResultChannel()`:
\* history append (which may fail), status change detection, notification,
\* previousStatus update.
MainHandle ==
    /\ mainPc \in Alive
    /\ resultChan # <<>>
    /\ LET r    == Head(resultChan)
           id   == r.WebsiteID
           prev == previousStatus[id]
       IN  /\ resultChan' = Tail(resultChan)
           /\ \E ok \in BOOLEAN :
                history' = IF ok
                           THEN [history EXCEPT ![id] = SaveHistory(@, r.Status)]
                           ELSE history
           /\ aggSeen' = aggSeen \cup {<<id, r.n>>}
           /\ IF StatusChanged(prev, r.Status) /\ websites[id].present
              THEN /\ SendStatusChange(id, prev, r.Status)
                   /\ notified' = notified \cup {<<id, r.n>>}
              ELSE UNCHANGED <<nmVars, notified>>
           /\ previousStatus' = [previousStatus EXCEPT ![id] = r.Status]
    /\ UNCHANGED <<websites, running, stopChan, resultChanClosed, inflight, pc,
                   mainPc, nmCtlVars, now, auxVars, ghostVars>>

(* ---------------------------- REST handlers ---------------------------- *)

\* WebsiteController.Post from `monitor.Website{...}` on: a website with a
\* fresh id is added to the engine.
PostAccepted(id, iv) ==
    /\ mainPc \in Alive
    /\ ~websites[id].present
    /\ id \notin removed
    /\ websites' = [websites EXCEPT ![id] = NewWebsite(iv)]
    /\ addedLive' = IF running THEN addedLive \cup {id} ELSE addedLive
    /\ UNCHANGED <<running, stopChan, resultChan, resultChanClosed, inflight,
                   pc, mainPc, aggVars, nmVars, nmCtlVars, now, baseAux,
                   loopVars, senders, saved, hfile, published, removed,
                   queuedAtStop>>

\* WebsiteController.Post, answered with 200.
Post(id, iv) == PostAccepted(id, iv) /\ UNCHANGED reply

\* WebsiteController.Put: the interval of a registered website is set when
\* the request gives a valid one, and its enabled flag is set.
PutFound(id, iv, en) ==
    /\ mainPc \in Alive
    /\ websites[id].present
    /\ websites' = [websites EXCEPT
                       ![id].IntervalSeconds = UpdateInterval(@, iv),
                       ![id].Enabled = en]
    /\ UNCHANGED <<running, stopChan, resultChan, resultChanClosed, inflight,
                   pc, mainPc, aggVars, nmVars, nmCtlVars, now, baseAux,
                   loopVars, senders, saved, hfile, ghostVars>>

\* WebsiteController.Put, answered with 200.
Put(id, iv, en) == PutFound(id, iv, en) /\ UNCHANGED reply

\* WebsiteController.Delete: RemoveWebsite, then DeleteWebsiteHistory.
DeleteFound(id) ==
    /\ mainPc \in Alive
    /\ websites[id].present
    /\ websites' = [websites EXCEPT ![id] = Absent]
    /\ history' = [history EXCEPT ![id] = <<>>]
    /\ removed' = removed \cup {id}
    /\ UNCHANGED <<running, stopChan, resultChan, resultChanClosed, inflight,
                   pc, mainPc, previousStatus, aggSeen, notified, nmVars,
                   nmCtlVars, now, baseAux, loopVars, senders, saved, hfile,
                   published, addedLive, queuedAtStop>>

\* WebsiteController.Delete, answered with 200.
Delete(id) == DeleteFound(id) /\ UNCHANGED reply

(* ------------------------ notification manager ------------------------- *)

\* NotificationManager.Start
NMStart ==
    /\ ~nmRunning
    /\ nmRunning' = TRUE
    /\ nmLoop' = "running"
    /\ oldEvents' = oldEvents + IF nmLoop = "running" THEN 1 ELSE 0
    /\ UNCHANGED <<nmStopChan, handled>>

\* NotificationManager.Stop
NMStop ==
    /\ nmRunning
    /\ nmRunning' = FALSE
    /\ nmStopChan' = IF nmStopChan = "open" THEN "closed" ELSE "panic"
    /\ UNCHANGED <<nmLoop, handled>>

\* processEvents, `case event := <-nm.eventQueue`: handleStatusChange(event).
NMHandle ==
    /\ mainPc # "exited"
    /\ nmLoop = "running"
    /\ eventQueue # <<>>
    /\ handled' = Append(handled, Head(eventQueue).k)
    /\ deliveries' = deliveries \cup handleStatusChange(Head(eventQueue))
    /\ eventQueue' = Tail(eventQueue)
    /\ UNCHANGED <<engineVars, mainPc, aggVars, lastNotified, sendLog,
                   nmRunning, nmStopChan, nmLoop, now, ghostVars, stored, extVars,
                   sinkVars, raceVars, probe, uptime>>

\* processEvents, `case <-nm.stopChan`.
NMExit ==
    /\ mainPc # "exited"
    /\ nmLoop = "running"
    /\ nmStopChan = "closed"
    /\ nmLoop' = "exited"
    /\ UNCHANGED <<engineVars, mainPc, aggVars, nmVars, nmRunning, nmStopChan,
                   handled, now, auxVars, ghostVars>>

(* -------------------------------- main --------------------------------- *)

\* main: notificationManager.Start(); monitorEngine.Start(); the result
\* handling goroutine and the HTTP server start.
MainStart ==
    /\ mainPc = "boot"
    /\ NMStart
    /\ EngineStart
    /\ mainPc' = "serving"
    /\ UNCHANGED <<websites, stopChan, resultChan, resultChanClosed, aggVars,
                   nmVars, now, baseAux, callVars, ghostVars>>

\* Shutdown goroutine of main: monitorEngine.Stop().
MainStopEngine ==
    /\ mainPc = "serving"
    /\ EngineStop
    /\ mainPc' = "stopping"
    /\ queuedAtStop' = {<<resultChan[i].WebsiteID, resultChan[i].n>> :
                            i \in 1..Len(resultChan)}
    /\ UNCHANGED <<websites, resultChan, resultChanClosed, inflight, pc,
                   aggVars, nmVars, nmCtlVars, now, auxVars, published, addedLive,
                   removed>>

\* Shutdown goroutine of main: notificationManager.Stop().
MainStopNotifier ==
    /\ mainPc = "stopping"
    /\ NMStop
    /\ mainPc' = "stopped"
    /\ UNCHANGED <<engineVars, aggVars, nmVars, now, auxVars, ghostVars>>

(* ---------------------------- specification ---------------------------- *)

Next ==
    \/ MainStart
    \/ MainStopEngine
    \/ MainStopNotifier
    \/ \E id \in Ids, status \in Statuses : Check(id, status)
    \/ \E id \in Ids : Tick(id)
    \/ \E id \in Ids : StopObserved(id)
    \/ ProcessResults
    \/ MainHandle
    \/ \E id \in Ids : Post(id, 0)
    \/ \E id \in Ids, en \in BOOLEAN : Put(id, 0, en)
    \/ \E id \in Ids : Delete(id)
    \/ NMHandle
    \/ NMExit

Spec == Init /\ [][Next]_vars

(* ------------------------ fair scheduling ------------------------------ *)

\* The check of id that is in progress returns and publishes its outcome.
CheckAny(id) == \E status \in Statuses : Check(id, status)

\* `for result := range ...resultChan` ends when the channel is closed and
\* drained: the condition under which processResults and the result handling
\* goroutine of main return.
RangeEnded == resultChanClosed /\ resultChan = <<>>

\* Goroutines that can run do run: a probe returns (30 s timeout) and a
\* waiting sender is served when a receiver takes a result; a select with a
\* closed stopChan picks that case sooner or later (the choice among ready
\* cases is random); the receivers of resultChan and eventQueue keep
\* receiving.
Fairness ==
    /\ \A id \in Ids : SF_vars(CheckAny(id))
    /\ \A id \in Ids : SF_vars(StopObserved(id))
    /\ WF_vars(ProcessResults)
    /\ WF_vars(MainHandle)
    /\ WF_vars(NMHandle)
    /\ WF_vars(NMExit)

\* The running program and the handlers that act on a monitored website.
NextRun ==
    \/ MainStart
    \/ MainStopEngine
    \/ MainStopNotifier
    \/ \E id \in Ids, status \in Statuses : Check(id, status)
    \/ \E id \in Ids : Tick(id)
    \/ \E id \in Ids : StopObserved(id)
    \/ ProcessResults
    \/ MainHandle
    \/ \E id \in Ids, en \in BOOLEAN : Put(id, 0, en)
    \/ \E id \in Ids : Delete(id)
    \/ NMHandle
    \/ NMExit

SpecFair == Init /\ [][NextRun]_vars /\ Fairness

(* ------------------------- shutdown of main ---------------------------- *)

\* Shutdown goroutine of main: SaveWebsites, time.Sleep(2 * time.Second),
\* os.Exit(0): every goroutine of the process ends where it is.
MainExit ==
    /\ mainPc = "stopped"
    /\ mainPc' = "exited"
    /\ UNCHANGED <<engineVars, aggVars, nmVars, nmCtlVars, now, auxVars, ghostVars>>

NextShutdown ==
    \/ Next
    \/ MainExit

SpecShutdown == Init /\ [][NextShutdown]_vars

(* -------------------- two websites loaded at startup ------------------- *)

\* As Init, with every website of Ids stored and loaded at startup.
InitAll ==
    \E en \in [Ids -> BOOLEAN] :
        Boot(SavedFile(Ids, en), [id \in Ids |-> NoRoute], NoConfig)

\* The monitor package on its own: the website loops and processResults,
\* the receiver the engine starts itself.
NextEngine ==
    \/ MainStart
    \/ MainStopEngine
    \/ \E id \in Ids, status \in Statuses : Check(id, status)
    \/ \E id \in Ids : Tick(id)
    \/ \E id \in Ids : StopObserved(id)
    \/ ProcessResults

\* The probes of w1 may never return; those of w2 return, and processResults
\* keeps receiving.
SpecHung ==
    /\ InitAll
    /\ [][NextEngine]_vars
    /\ SF_vars(CheckAny("w2"))
    /\ WF_vars(ProcessResults)

(* ------------------- the REST handlers with intervals ------------------ *)

NextApi ==
    \/ MainStart
    \/ \E id \in Ids, iv \in ReqIntervals : Post(id, iv)
    \/ \E id \in Ids, iv \in ReqIntervals, en \in BOOLEAN : Put(id, iv, en)
    \/ \E id \in Ids : Delete(id)

SpecApi == Init /\ [][NextApi]_vars

(* ------------- the notification manager under any caller --------------- *)

Other(status) == IF status = "up" THEN "down" ELSE "up"

\* A caller starts the manager.
NotifyStart ==
    /\ nmLoop = "none"
    /\ NMStart
    /\ UNCHANGED <<engineVars, mainPc, aggVars, nmVars, now, baseAux, ticker,
                   oldLoops, callVars, ghostVars>>

\* A caller stops the manager.
NotifyStop ==
    /\ NMStop
    /\ UNCHANGED <<engineVars, mainPc, aggVars, nmVars, now, auxVars, ghostVars>>

\* A caller submits a status change of website id.
NotifySend(id, new) ==
    /\ Len(sendLog) < MaxSends
    /\ SendStatusChange(id, Other(new), new)
    /\ UNCHANGED <<engineVars, mainPc, aggVars, nmCtlVars, now, auxVars, ghostVars>>

\* Time passes.
AdvanceTime(d) ==
    /\ now + d <= MaxTime
    /\ now' = now + d
    /\ UNCHANGED <<engineVars, mainPc, aggVars, nmVars, nmCtlVars, ghostVars,
                   auxVars>>

NextNotify ==
    \/ NotifyStart
    \/ NotifyStop
    \/ \E id \in Ids, new \in Statuses : NotifySend(id, new)
    \/ NMHandle
    \/ NMExit
    \/ \E d \in {1, ThrottleWindow} : AdvanceTime(d)

SpecNotify == Init /\ [][NextNotify]_vars

(* ------------------------------- claims -------------------------------- *)

Last(s) == s[Len(s)]

\* The outcomes of id that main's result handling goroutine has received.
SeenOf(id) == {p \in aggSeen : p[1] = id}

\* Outcome n of id is no longer on resultChan.
Consumed(id, n) ==
    \A i \in 1..Len(resultChan) :
        ~(resultChan[i].WebsiteID = id /\ resultChan[i].n = n)

\* C1: once every outcome published for a registered target has been
\* consumed, the target's Status in the registry is the status of the most
\* recently published outcome.
C1_RegistryStatusIsLastPublished ==
    \A id \in Ids :
        (websites[id].present /\ published[id] # <<>> /\ ~InChan(id))
            => websites[id].Status = Last(published[id])

\* C2: for every consumed outcome of a target other than its first,
\* SendStatusChange was called for it if and only if its status differs from
\* the status of the outcome published just before it for the same target.
C2_TransitionIffStatusDiffers ==
    \A id \in Ids :
        \A n \in 2..Len(published[id]) :
            Consumed(id, n) =>
                (<<id, n>> \in notified
                    <=> published[id][n] # published[id][n - 1])

\* C3: the outcome handled for a target that has no entry in previousStatus
\* produces no call of SendStatusChange, whatever its status; the step only
\* records the status of that outcome in previousStatus.
C3_FirstOutcomeNeverNotifies ==
    [][\A id \in Ids :
          (previousStatus[id] = NoStatus /\ previousStatus'[id] # NoStatus)
              => /\ sendLog' = sendLog
                 /\ notified' = notified
                 /\ eventQueue' = eventQueue
                 /\ lastNotified' = lastNotified
                 /\ previousStatus'[id] = Head(resultChan).Status]_vars

C3_Witness ==
    /\ previousStatus["w1"] = "down"
    /\ SeenOf("w1") = {<<"w1", 1>>}
    /\ sendLog = <<>>

\* C4: once resultChan holds no outcome of a target, the number of
\* SaveHistory calls made for it equals the number of outcomes its loop
\* published.
C4_EveryOutcomeSavedOnce ==
    \A id \in Ids :
        ~InChan(id) => Cardinality(SeenOf(id)) = Len(published[id])

\* C9: a target added while the engine is running has a monitoring loop.
C9_AddedTargetHasLoop ==
    \A id \in addedLive : pc[id] # "none"

\* C10: once RemoveWebsite(id) has returned, no further outcome of id is
\* published, and none is handled (history append, previousStatus update).
C10_NothingAfterRemoval ==
    [][\A id \in removed :
          /\ published'[id] = published[id]
          /\ SeenOf(id)' = SeenOf(id)
          /\ history'[id] = history[id]
          /\ previousStatus'[id] = previousStatus[id]]_vars

(* ----------------------- claims on the throttle ------------------------ *)

Calls == 1..Len(sendLog)

\* Calls i and j are two successive submissions for the same target.
Successive(i, j) ==
    /\ i < j
    /\ sendLog[i].WebsiteID = sendLog[j].WebsiteID
    /\ \A k \in Calls :
          (i < k /\ k < j) => sendLog[k].WebsiteID # sendLog[i].WebsiteID

\* Call i found no notification recorded for its target in the last 5 minutes.
Fresh(i) ==
    sendLog[i].last = NoTime \/ sendLog[i].at - sendLog[i].last >= ThrottleWindow

HandledCalls == {handled[x] : x \in 1..Len(handled)}

QueuedCalls == {eventQueue[x].k : x \in 1..Len(eventQueue)}

\* Delivery is attempted only for events that were enqueued, and once.
HandledOnlyQueued ==
    /\ \A k \in HandledCalls : sendLog[k].res = "queued"
    /\ \A x, y \in 1..Len(handled) : handled[x] = handled[y] => x = y

\* C5, as stated: of two successive events for one target less than 5
\* minutes apart (the first not throttled by an earlier one), the first is
\* enqueued and the second is throttled.
C5_FirstAcceptedSecondThrottled ==
    \A i, j \in Calls :
        (Successive(i, j) /\ Fresh(i)
            /\ sendLog[j].at - sendLog[i].at < ThrottleWindow)
        => (sendLog[i].res = "queued" /\ sendLog[j].res = "throttled")

\* C5, amended: when moreover the queue has room at the first submission,
\* the first is enqueued and the second is throttled: it is neither enqueued
\* nor delivered, and delivery is attempted for enqueued events only.
C5_SecondThrottledWithinWindow ==
    /\ HandledOnlyQueued
    /\ \A i, j \in Calls :
          (Successive(i, j) /\ Fresh(i) /\ sendLog[i].qlen < EventQueueCap
              /\ sendLog[j].at - sendLog[i].at < ThrottleWindow)
          => /\ sendLog[i].res = "queued"
             /\ sendLog[j].res = "throttled"
             /\ j \notin HandledCalls \cup QueuedCalls

C5_Witness ==
    \E i, j \in Calls :
        /\ Successive(i, j)
        /\ sendLog[j].at - sendLog[i].at < ThrottleWindow
        /\ sendLog[i].res = "queued"
        /\ sendLog[j].res = "throttled"
        /\ i \in HandledCalls
        /\ eventQueue = <<>>

\* C6, as stated: of two successive events for one target more than 5
\* minutes apart (the first not throttled by an earlier one), both are
\* enqueued.
C6_BothAcceptedBeyondWindow ==
    \A i, j \in Calls :
        (Successive(i, j) /\ Fresh(i)
            /\ sendLog[j].at - sendLog[i].at > ThrottleWindow)
        => (sendLog[i].res = "queued" /\ sendLog[j].res = "queued")

\* C6, amended: the second is never throttled, and both are enqueued when
\* the queue has room at each of the two submissions; delivery is attempted
\* for enqueued events only.
C6_BothAcceptedWhenRoom ==
    /\ HandledOnlyQueued
    /\ \A i, j \in Calls :
          (Successive(i, j) /\ Fresh(i)
              /\ sendLog[j].at - sendLog[i].at > ThrottleWindow)
          => /\ sendLog[j].res # "throttled"
             /\ (sendLog[i].qlen < EventQueueCap /\ sendLog[j].qlen < EventQueueCap)
                    => (sendLog[i].res = "queued" /\ sendLog[j].res = "queued")

C6_Witness ==
    \E i, j \in Calls :
        /\ Successive(i, j)
        /\ sendLog[j].at - sendLog[i].at > ThrottleWindow
        /\ sendLog[i].res = "queued"
        /\ sendLog[j].res = "queued"
        /\ {i, j} \subseteq HandledCalls

\* A SendStatusChange call is made in this step.
Called == Len(sendLog') = Len(sendLog) + 1

\* C7: a call that is throttled leaves the throttle table and the queue
\* unchanged, and the throttle entry of a target changes only in a call for
\* that target that is not throttled and whose event is enqueued.
C7_ThrottledCallChangesNothing ==
    [][/\ (Called /\ ~(Fresh(Len(sendLog))'))
            => (lastNotified' = lastNotified /\ eventQueue' = eventQueue)
       /\ \A id \in Ids :
            lastNotified'[id] # lastNotified[id]
                => /\ Called
                   /\ Last(sendLog').WebsiteID = id
                   /\ Fresh(Len(sendLog))'
                   /\ Len(eventQueue') = Len(eventQueue) + 1
                   /\ Last(eventQueue').WebsiteID = id
                   /\ lastNotified'[id] = now]_vars

C7_Witness ==
    \E k \in Calls :
        /\ ~Fresh(k)
        /\ sendLog[k].res = "throttled"
        /\ k = Len(sendLog)
        /\ lastNotified[sendLog[k].WebsiteID] = sendLog[k].last
        /\ sendLog[k].at > sendLog[k].last

\* C8: SendStatusChange can always be called and return; a call that is not
\* throttled and finds the queue full drops its event and leaves the queue
\* and the throttle table unchanged; the queue never exceeds its capacity.
C8_FullQueueDropsWithoutBlocking ==
    /\ [](Len(sendLog) < MaxSends
            => \A id \in Ids, new \in Statuses : ENABLED NotifySend(id, new))
    /\ [](Len(eventQueue) <= EventQueueCap)
    /\ [][(Called /\ Len(eventQueue) = EventQueueCap /\ Fresh(Len(sendLog))')
            => /\ Last(sendLog').res = "dropped"
               /\ eventQueue' = eventQueue
               /\ lastNotified' = lastNotified]_vars

C8_Witness ==
    \E k \in Calls :
        /\ sendLog[k].res = "dropped"
        /\ sendLog[k].qlen = EventQueueCap
        /\ k = Len(sendLog)
        /\ Len(eventQueue) = EventQueueCap
        /\ lastNotified[sendLog[k].WebsiteID] = sendLog[k].last

(* ---------------------- stopping and shutting down --------------------- *)

Exited(id) == pc[id] \in {"none", "done"}

Monitored(id) == websites[id].present /\ websites[id].Enabled

\* C11: once stopChan is closed, or once the website is disabled, the loop
\* leaves its select only by returning: whichever case it takes next, tick or
\* stop signal, it exits and starts no further check.
C11_LoopExitsAtNextObservation ==
    [][\A id \in Ids :
         (/\ pc[id] = "select"
          /\ pc'[id] # "select"
          /\ (stopChan = "closed" \/ ~Monitored(id)))
         => pc'[id] = "done"]_vars

\* C12: once Stop has returned and every website loop has exited, resultChan
\* is closed; and it is never closed while a loop is still running.
C12_StopClosesResultChan ==
    /\ (stopChan = "closed" /\ \A id \in Ids : Exited(id)) => resultChanClosed
    /\ resultChanClosed => \A id \in Ids : Exited(id)

\* Stop of the engine has been called by the shutdown goroutine of main.
StopCalled == mainPc \in {"stopping", "stopped"}

\* C13: after Stop of the engine every website loop terminates, whether it
\* was waiting in its select, in the middle of a probe or waiting to send its
\* outcome.
C13_LoopsTerminateAfterStop ==
    \A id \in Ids : StopCalled ~> Exited(id)

\* Stop has been called while the loop of w1 waits to send on a full channel.
C13_Witness ==
    /\ StopCalled
    /\ pc["w1"] = "check"
    /\ Len(resultChan) = ResultChanCap

\* C14: after both Stops the receivers of resultChan (processResults and the
\* result handling goroutine of main) and processEvents all terminate.
C14_ConsumersTerminate ==
    (mainPc = "stopped") ~> (RangeEnded /\ nmLoop = "exited")

\* C15: when the process exits, every outcome that was queued on resultChan
\* when Stop was called has been received by the result handling goroutine of
\* main and handed to SaveHistory.
C15_QueuedOutcomesSavedBeforeExit ==
    mainPc = "exited" => queuedAtStop \subseteq aggSeen

(* ------------------- independence, back-pressure, order ---------------- *)

\* C16: while the probe of w1 is in progress, however long, the loop of w2
\* takes its tick whenever it is due, and every check w2 starts returns and
\* publishes its outcome.
C16_OtherLoopsKeepChecking ==
    /\ []((/\ inflight["w1"] > 0
            /\ pc["w2"] = "select"
            /\ Monitored("w2")
            /\ Len(published["w2"]) < MaxChecks)
           => ENABLED Tick("w2"))
    /\ (inflight["w2"] > 0) ~> (inflight["w2"] = 0)

\* The first probe of w1 has not returned and w2 has published MaxChecks
\* outcomes.
C16_Witness ==
    /\ pc["w1"] = "check"
    /\ published["w1"] = <<>>
    /\ Len(published["w2"]) = MaxChecks

\* The outcomes of id that wait in resultChan, oldest first.
Queued(id) ==
    LET idx == {i \in 1..Len(resultChan) : resultChan[i].WebsiteID = id}
        F[i \in 0..Len(resultChan)] ==
            IF i = 0 THEN <<>>
            ELSE IF i \in idx THEN Append(F[i - 1], resultChan[i].n)
            ELSE F[i - 1]
    IN  F[Len(resultChan)]

\* C17: resultChan never holds more than its capacity; a check that returns
\* while it is full waits; every outcome a check produces is appended to the
\* channel as produced; outcomes leave the channel only from its head, taken
\* by a receiver; and every check in progress does deliver its outcome.
C17_FullChannelBlocksAndDelivers ==
    /\ [](Len(resultChan) <= ResultChanCap)
    /\ [](\A id \in Ids :
            (Len(resultChan) = ResultChanCap /\ inflight[id] > 0)
            => ~ENABLED CheckAny(id))
    /\ [][\A id \in Ids :
            published'[id] # published[id]
            => /\ Len(published'[id]) = Len(published[id]) + 1
               /\ resultChan' =
                    Append(resultChan,
                           CheckResult(id, Last(published'[id]),
                                       Len(published'[id])))]_vars
    /\ [][(resultChan' # resultChan /\ published' = published)
          => /\ resultChan # <<>>
             /\ resultChan' = Tail(resultChan)
             /\ (ProcessResults \/ MainHandle)]_vars
    /\ \A id \in Ids : (inflight[id] > 0) ~> (inflight[id] = 0)

\* The loop of w1 waits to send its outcome on a full channel.
C17_Witness ==
    /\ Len(resultChan) = ResultChanCap
    /\ pc["w1"] = "check"
    /\ inflight["w1"] = 1
    /\ stopChan = "open"

\* C18: at most one check of a website is in progress, and only while its
\* loop is in checkWebsite; the outcomes of a website wait in resultChan in
\* the order of its checks and are the latest ones it produced.
C18_ChecksDoNotOverlap ==
    \A id \in Ids :
        /\ inflight[id] <= 1
        /\ (inflight[id] = 1) <=> (pc[id] = "check")
        /\ \A i \in 1..Len(Queued(id)) :
               Queued(id)[i] = Len(published[id]) - Len(Queued(id)) + i

\* A second check of w1 is in progress while its first outcome still waits.
C18_Witness ==
    /\ inflight["w1"] = 1
    /\ Len(published["w1"]) >= 1
    /\ Queued("w1") # <<>>

AllDown(id) ==
    /\ published[id] # <<>>
    /\ \A i \in 1..Len(published[id]) : published[id][i] = "down"

\* C19: a monitored website whose probes all fail keeps being probed (its
\* loop returns only when stopChan is closed) and its registry status is
\* `down` once its outcomes have been received.
C19_FailingTargetRetriedAndDown ==
    /\ [](\A id \in Ids :
            (websites[id].present /\ AllDown(id) /\ ~InChan(id))
            => websites[id].Status = "down")
    /\ [][\A id \in Ids :
            (/\ Monitored(id)
             /\ AllDown(id)
             /\ pc[id] = "select"
             /\ pc'[id] = "done")
            => stopChan = "closed"]_vars

(* --------------------------- check interval ---------------------------- *)

\* C20: a website created or updated with an interval below 30 seconds has a
\* stored interval of 60 seconds afterwards.
C20_ShortIntervalBecomes60 ==
    [][\A id \in Ids, iv \in ReqIntervals :
         (/\ iv < MinInterval
          /\ (Post(id, iv) \/ \E en \in BOOLEAN : Put(id, iv, en)))
         => websites'[id].IntervalSeconds = DefaultInterval]_vars

\* C20 (amended): a website created with an interval below 30 seconds is
\* stored with 60 seconds; an update with an interval below 30 seconds leaves
\* the stored interval as it was; an interval of 30 seconds or more is stored
\* as given by both.
C20_ShortIntervalOnCreateAndUpdate ==
    [][\A id \in Ids, iv \in ReqIntervals :
         /\ Post(id, iv)
            => websites'[id].IntervalSeconds
                 = IF iv < MinInterval THEN DefaultInterval ELSE iv
         /\ (\E en \in BOOLEAN : Put(id, iv, en))
            => websites'[id].IntervalSeconds
                 = IF iv < MinInterval THEN websites[id].IntervalSeconds
                   ELSE iv]_vars

\* w2 was created with an interval below 30 seconds (ReqIntervals has no 60).
C20_Witness ==
    /\ websites["w2"].present
    /\ websites["w2"].IntervalSeconds = DefaultInterval
    /\ websites["w1"].present
    /\ websites["w1"].IntervalSeconds \in ReqIntervals

(* ----------------------- loading the websites file --------------------- *)

\* main starts on any websites file.
InitStored ==
    \E file \in StoredFiles :
        Boot(file, [id \in Ids |-> NoRoute], NoConfig)

SpecLoad == InitStored /\ [][NextApi]_vars

\* C21: every website in the registry has a check interval of at least 30
\* seconds, whatever was loaded, created and updated.
C21_IntervalAtLeastMinimum ==
    \A id \in Ids :
        websites[id].present => websites[id].IntervalSeconds >= MinInterval

\* C29: after the load every well-formed record of the websites file is
\* registered, with its stored fields, whatever the other records are.
C29_ValidRecordsLoaded ==
    mainPc = "boot" =>
        \A r \in stored :
            r.ok => /\ websites[r.ID].present
                    /\ websites[r.ID].Enabled = r.Enabled
                    /\ websites[r.ID].IntervalSeconds = r.IntervalSeconds

(* ---------------- accesses to a website record, step by step ----------- *)

coreVars == <<engineVars, mainPc, aggVars, nmVars, nmCtlVars, now, ghostVars>>

\* GetWebsite, called by Put and by the tick branch of monitorWebsite:
\* me.mutex.RLock().
GetWebsiteRLock(u, id) ==
    /\ u \in {"put", "loop"}
    /\ unit[u] = Idle
    /\ websites[id].present
    /\ mutex.writer = "none"
    /\ mutex' = [mutex EXCEPT !.readers = @ \cup {u}]
    /\ unit' = [unit EXCEPT ![u] = [at |-> "rlocked", id |-> id,
                                    field |-> "none"]]
    /\ UNCHANGED <<coreVars, stored, extVars, sinkVars, deliveries, probe, uptime>>

\* GetWebsite returns the pointer stored in the map: the deferred RUnlock
\* runs and the caller keeps the pointer.
GetWebsiteRUnlock(u) ==
    /\ unit[u].at = "rlocked"
    /\ mutex' = [mutex EXCEPT !.readers = @ \ {u}]
    /\ unit' = [unit EXCEPT ![u].at = "ptr"]
    /\ UNCHANGED <<coreVars, stored, extVars, sinkVars, deliveries, probe, uptime>>

\* Put: `website.URL = request.URL`, `website.Enabled = request.Enabled`,
\* through the pointer; the assignment begins.
PutWriteField(field) ==
    /\ unit["put"].at = "ptr"
    /\ field \in {"URL", "Enabled"}
    /\ unit' = [unit EXCEPT !["put"].at = "writing", !["put"].field = field]
    /\ UNCHANGED <<coreVars, stored, extVars, sinkVars, deliveries, mutex, probe,
                   uptime>>

\* monitorWebsite reads currentWebsite.Enabled, checkWebsite reads
\* website.URL, through the pointer; the read begins.
LoopReadField(field) ==
    /\ unit["loop"].at = "ptr"
    /\ field \in {"URL", "Enabled"}
    /\ unit' = [unit EXCEPT !["loop"].at = "reading", !["loop"].field = field]
    /\ UNCHANGED <<coreVars, stored, extVars, sinkVars, deliveries, mutex, probe,
                   uptime>>

\* The access of a field through the pointer ends.
AccessDone(u) ==
    /\ u \in {"put", "loop"}
    /\ unit[u].at \in {"reading", "writing"}
    /\ unit' = [unit EXCEPT ![u] = Idle]
    /\ UNCHANGED <<coreVars, stored, extVars, sinkVars, deliveries, mutex, probe,
                   uptime>>

\* UpdateWebsiteStatus, called by processResults: me.mutex.Lock().
UpdateStatusLock(id) ==
    /\ unit["results"] = Idle
    /\ mutex = Unlocked
    /\ mutex' = [mutex EXCEPT !.writer = "results"]
    /\ unit' = [unit EXCEPT !["results"] = [at |-> "locked", id |-> id,
                                            field |-> "none"]]
    /\ UNCHANGED <<coreVars, stored, extVars, sinkVars, deliveries, probe, uptime>>

\* UpdateWebsiteStatus: `website.Status = status` when the website exists.
UpdateStatusWrite ==
    /\ unit["results"].at = "locked"
    /\ websites[unit["results"].id].present
    /\ unit' = [unit EXCEPT !["results"].at = "writing",
                            !["results"].field = "Status"]
    /\ UNCHANGED <<coreVars, stored, extVars, sinkVars, deliveries, mutex, probe,
                   uptime>>

\* UpdateWebsiteStatus returns: the deferred Unlock runs.
UpdateStatusUnlock ==
    /\ unit["results"].at \in {"locked", "writing"}
    /\ mutex' = [mutex EXCEPT !.writer = "none"]
    /\ unit' = [unit EXCEPT !["results"] = Idle]
    /\ UNCHANGED <<coreVars, stored, extVars, sinkVars, deliveries, probe, uptime>>

NextRace ==
    \/ \E u \in Units, id \in Ids : GetWebsiteRLock(u, id)
    \/ \E u \in Units : GetWebsiteRUnlock(u)
    \/ \E field \in Fields : PutWriteField(field)
    \/ \E field \in Fields : LoopReadField(field)
    \/ \E u \in Units : AccessDone(u)
    \/ \E id \in Ids : UpdateStatusLock(id)
    \/ UpdateStatusWrite
    \/ UpdateStatusUnlock

SpecRace == InitAll /\ [][NextRace]_vars

Accessing(u) == unit[u].at \in {"reading", "writing"}

\* C22: no two goroutines are in the same field of the same website record at
\* once when one of them writes it: the write of the Put handler excludes the
\* reads of the website loop and the write of processResults.
C22_RecordAccessExclusive ==
    \A u, v \in Units :
        (/\ u # v
         /\ Accessing(u)
         /\ Accessing(v)
         /\ unit[u].id = unit[v].id
         /\ unit[u].field = unit[v].field)
        => (unit[u].at = "reading" /\ unit[v].at = "reading")

(* --------------------------- the dispatcher ---------------------------- *)

MailConfigured == config.SMTPHost /\ config.SMTPUsername

Started(k, sink) == [k |-> k, sink |-> sink, st |-> "started"]

\* sendEmailNotification: returns with a warning when SMTPHost or
\* SMTPUsername is empty, calls smtp.SendMail otherwise; res is what SendMail
\* returns, whenever it returns.
sendEmailNotification(k, res) ==
    /\ mainPc # "exited"
    /\ Started(k, "email") \in deliveries
    /\ deliveries' = (deliveries \ {Started(k, "email")}) \cup
                       {[k |-> k, sink |-> "email",
                         st |-> IF MailConfigured THEN res ELSE "skipped"]}
    /\ UNCHANGED <<coreVars, stored, extVars, sinkVars, raceVars, probe, uptime>>

\* sendSlackNotification: posts to the webhook; res is the result of the
\* Post, whenever it returns.
sendSlackNotification(k, res) ==
    /\ mainPc # "exited"
    /\ Started(k, "slack") \in deliveries
    /\ deliveries' = (deliveries \ {Started(k, "slack")}) \cup
                       {[k |-> k, sink |-> "slack", st |-> res]}
    /\ UNCHANGED <<coreVars, stored, extVars, sinkVars, raceVars, probe, uptime>>

\* The manager on any routing of the websites and any SMTP settings.
InitDispatch ==
    \E en \in [LoadedIds -> BOOLEAN], rt \in [Ids -> Routes], cfg \in Configs :
        Boot(SavedFile(LoadedIds, en), rt, cfg)

NextDispatch ==
    \/ NotifyStart
    \/ NotifyStop
    \/ \E id \in Ids, new \in Statuses : NotifySend(id, new)
    \/ NMHandle
    \/ NMExit
    \/ \E k \in 1..MaxSends, res \in {"sent", "failed"} :
          sendEmailNotification(k, res)
    \/ \E k \in 1..MaxSends, res \in {"sent", "failed"} :
          sendSlackNotification(k, res)

SpecDispatch == InitDispatch /\ [][NextDispatch]_vars

\* The event of SendStatusChange call k has been dequeued.
Dequeued(k) == \E x \in 1..Len(handled) : handled[x] = k

\* C23: the step that dequeues an event starts an email delivery iff the
\* event has an address and SMTPHost is set, and a webhook delivery iff it has
\* a webhook URL; smtp.SendMail is called only, and then can be called, when
\* the event has an address and SMTPHost and SMTPUsername are set; a delivery
\* that has not returned disables neither the other delivery of its event nor
\* the dequeuing of the next event.
C23_SinksAttemptedIndependently ==
    /\ [][handled' # handled
          => LET e == Head(eventQueue)
                 new == deliveries' \ deliveries
             IN  /\ (Started(e.k, "email") \in new)
                    <=> (e.Emails /\ config.SMTPHost)
                 /\ (Started(e.k, "slack") \in new) <=> e.SlackWebhook
                 /\ new \subseteq {Started(e.k, "email"),
                                   Started(e.k, "slack")}
                 /\ deliveries \subseteq deliveries']_vars
    /\ [](\A d \in deliveries :
            /\ (d.sink = "email" /\ d.st \in {"sent", "failed"})
               => MailConfigured
            /\ (d.sink = "email" /\ d.st = "skipped") => ~MailConfigured
            /\ d.st = "started" =>
                 IF d.sink = "email"
                 THEN ENABLED sendEmailNotification(d.k, "sent")
                 ELSE ENABLED sendSlackNotification(d.k, "sent"))
    /\ []((nmLoop = "running" /\ eventQueue # <<>>) => ENABLED NMHandle)

\* The email delivery of event 1 has not returned, its webhook delivery has,
\* and the next event has been dequeued.
C23_Witness ==
    /\ Started(1, "email") \in deliveries
    /\ [k |-> 1, sink |-> "slack", st |-> "sent"] \in deliveries
    /\ Dequeued(2)

(* ------------------------------ the probe ------------------------------ *)

\* HTTP status codes of a response.
StatusCodes == {100, 199, 200, 204, 301, 399, 400, 404, 500, 503}

\* Measured round trips, milliseconds.
Latencies == {0, 1, 250, 29999}

\* What a probe meets: http.NewRequest fails (reqErr), httpClient.Do fails
\* (doErr), or a response with a status code arrives after ms milliseconds.
Responses == [reqErr : BOOLEAN, doErr : BOOLEAN, code : StatusCodes,
              ms : Latencies]

\* The fields of a CheckResult that depend on the response; Error: err is
\* not nil.
Outcome(status, ms, err) ==
    [Status |-> status, ResponseTime |-> ms, Error |-> err]

\* Faulty variant: the latency measured before the failure is kept and any
\* status below 400 counts as up.
checkWebsite_Loose(resp) ==
    IF resp.reqErr
    THEN <<Outcome("down", 0, TRUE)>>
    ELSE <<Outcome(IF resp.doErr THEN "down"
                   ELSE IF resp.code < 400 THEN "up" ELSE "down",
                   resp.ms, resp.doErr)>>

\* MonitorEngine.checkWebsite: the results it sends on resultChan, in order.
checkWebsite(resp) ==
    IF resp.reqErr
    THEN <<Outcome("down", 0, TRUE)>>
    ELSE <<Outcome(IF resp.doErr THEN "down"
                   ELSE IF resp.code >= 200 /\ resp.code < 400 THEN "up"
                   ELSE "down",
                   IF resp.doErr THEN 0 ELSE resp.ms,
                   resp.doErr)>>

\* A probe meets resp.
Probe(resp) ==
    /\ probe = <<>>
    /\ probe' = <<[resp |-> resp, sent |-> checkWebsite(resp)]>>
    /\ UNCHANGED <<coreVars, stored, extVars, sinkVars, deliveries, raceVars, uptime>>

NextProbe == \E resp \in Responses : Probe(resp)

SpecProbe == Init /\ [][NextProbe]_vars

\* C24: every probe sends exactly one result; it is down with latency 0 and
\* the error set when the request could not be built or sent, up with the
\* measured latency and no error when the status code is in [200, 400), and
\* down with the measured latency and no error for any other status code.
C24_ProbeMapsEveryResult ==
    probe # <<>> =>
        LET resp == probe[1].resp
            sent == probe[1].sent
        IN  /\ Len(sent) = 1
            /\ sent[1].Status \in Statuses
            /\ (resp.reqErr \/ resp.doErr)
               => sent[1] = Outcome("down", 0, TRUE)
            /\ (~resp.reqErr /\ ~resp.doErr /\ resp.code \in 200..399)
               => sent[1] = Outcome("up", resp.ms, FALSE)
            /\ (~resp.reqErr /\ ~resp.doErr /\ resp.code \notin 200..399)
               => sent[1] = Outcome("down", resp.ms, FALSE)

\* A probe has met a transport error after a measurable time.
C24_Witness ==
    /\ probe # <<>>
    /\ ~probe[1].resp.reqErr
    /\ probe[1].resp.doErr
    /\ probe[1].resp.ms = 250
    /\ probe[1].sent = <<Outcome("down", 0, TRUE)>>

(* ------------------------------- uptime -------------------------------- *)

\* Largest number of entries of a history file.
MaxSamples == 4

\* Hours since a sample was taken.
Ages == {0, 1, 2}

\* Window lengths asked for, hours.
Windows == {1, 2}

HistoryEntries == [age : Ages, Status : Statuses]

Histories == UNION {[1..n -> HistoryEntries] : n \in 0..MaxSamples}

\* Storage.GetRecentHistory: the entries whose timestamp is after the cutoff
\* `now - hours`.
GetRecentHistory(h, hours) == SelectSeq(h, LAMBDA e : e.age < hours)

UpCount(h) == Len(SelectSeq(h, LAMBDA e : e.Status = "up"))

\* Faulty variant: no data counts as no uptime.
CalculateUptime_EmptyIsZero(h, hours, loadErr) ==
    IF loadErr
    THEN [err |-> TRUE, num |-> 0, den |-> 1]
    ELSE LET recent == GetRecentHistory(h, hours)
         IN  IF Len(recent) = 0
             THEN [err |-> FALSE, num |-> 0, den |-> 1]
             ELSE [err |-> FALSE, num |-> UpCount(recent) * 100,
                   den |-> Len(recent)]

\* Storage.CalculateUptime; the float64 it returns is the quotient num / den.
CalculateUptime(h, hours, loadErr) ==
    IF loadErr
    THEN [err |-> TRUE, num |-> 0, den |-> 1]
    ELSE LET recent == GetRecentHistory(h, hours)
         IN  IF Len(recent) = 0
             THEN [err |-> FALSE, num |-> 100, den |-> 1]
             ELSE [err |-> FALSE, num |-> UpCount(recent) * 100,
                   den |-> Len(recent)]

\* CalculateUptime is called on a history file; loadErr: the file cannot be
\* read or decoded.
Uptime(h, hours, loadErr) ==
    /\ uptime = <<>>
    /\ loadErr => h = <<>>
    /\ uptime' = <<[history |-> h, hours |-> hours,
                    result |-> CalculateUptime(h, hours, loadErr)]>>
    /\ UNCHANGED <<coreVars, stored, extVars, sinkVars, deliveries, raceVars, probe>>

NextUptime ==
    \E h \in Histories, hours \in Windows, loadErr \in BOOLEAN :
        Uptime(h, hours, loadErr)

SpecUptime == Init /\ [][NextUptime]_vars

\* The samples of h in the window, and those of them that are up.
InWindow(h, hours) == {i \in 1..Len(h) : h[i].age < hours}

UpInWindow(h, hours) == {i \in InWindow(h, hours) : h[i].Status = "up"}

\* 7 samples up and 3 down, all in the window.
SevenOfTen ==
    [i \in 1..10 |-> [age |-> 0, Status |-> IF i <= 7 THEN "up" ELSE "down"]]

\* C25: CalculateUptime returns 100 when no sample is in the window and
\* otherwise 100 * (samples up in the window) / (samples in the window), 70
\* for 7 up out of 10, and always a value within [0, 100].
C25_UptimeIsPercentUp ==
    /\ uptime # <<>> =>
         LET h     == uptime[1].history
             hours == uptime[1].hours
             r     == uptime[1].result
             n     == Cardinality(InWindow(h, hours))
             up    == Cardinality(UpInWindow(h, hours))
         IN  /\ r.den > 0
             /\ 0 <= r.num
             /\ r.num <= 100 * r.den
             /\ (~r.err /\ n = 0) => r.num = 100 * r.den
             /\ (~r.err /\ n > 0) => r.num * n = 100 * up * r.den
    /\ LET r == CalculateUptime(SevenOfTen, 1, FALSE)
       IN  ~r.err /\ r.num = 70 * r.den

\* One of two samples in the window is up, a third sample is outside it.
C25_Witness ==
    /\ uptime # <<>>
    /\ Len(uptime[1].history) = 3
    /\ Cardinality(InWindow(uptime[1].history, uptime[1].hours)) = 2
    /\ Cardinality(UpInWindow(uptime[1].history, uptime[1].hours)) = 1
    /\ uptime[1].result = [err |-> FALSE, num |-> 100, den |-> 2]

(* ------------------------- scenarios of a website --------------------- *)

\* The outcomes of the scenario of C26.
Scenario == <<"up", "down", "down", "up">>

\* The outcomes of the scenario for which SendStatusChange is to be called.
ScenarioTransitions == {2, 4}

\* The SendStatusChange calls made for website id, in order.
CallsOf(id) == SelectSeq(sendLog, LAMBDA c : c.WebsiteID = id)

\* C26: when the outcomes of w1 are the first k of up, down, down, up and all
\* have been received, the registry status is the k-th of them, and
\* SendStatusChange has been called exactly for outcome 2 (up to down,
\* enqueued) and outcome 4 (down to up, throttled).
C26_UpDownDownUp ==
    \A k \in 1..Len(Scenario) :
        (/\ websites["w1"].present
         /\ published["w1"] = SubSeq(Scenario, 1, k)
         /\ ~InChan("w1"))
        => /\ websites["w1"].Status = Scenario[k]
           /\ {p \in notified : p[1] = "w1"}
                = {<<"w1", n>> : n \in ScenarioTransitions \cap 1..k}
           /\ Len(CallsOf("w1")) = Cardinality(ScenarioTransitions \cap 1..k)
           /\ k >= 2 => CallsOf("w1")[1].res = "queued"
           /\ k >= 4 => CallsOf("w1")[2].res = "throttled"

\* C27: while the engine runs, a website that is enabled has a loop that has
\* not returned, also after it was disabled and enabled again: a loop that has
\* returned is never started again, so only then is the website probed again.
C27_ReenabledTargetIsMonitored ==
    \A id \in Ids :
        (running /\ stopChan = "open" /\ Monitored(id))
        => pc[id] # "done"

\* C28: a website that is registered and disabled has no loop and no check
\* in progress; Start starts loops for enabled websites only; no check is
\* started at a tick at which the website is disabled.
C28_NoLoopWhileDisabled ==
    /\ [](\A id \in Ids :
            (websites[id].present /\ ~websites[id].Enabled)
            => (Exited(id) /\ inflight[id] = 0))
    /\ [][\A id \in Ids :
            /\ (pc[id] = "none" /\ pc'[id] # "none") => Monitored(id)
            /\ inflight'[id] > inflight[id] => Monitored(id)]_vars

\* C28 (amended): Start starts loops for enabled websites only; a loop starts
\* no check at a tick at which the website is disabled or removed but returns
\* at that tick. Until that tick the loop of a disabled website still waits
\* in its select, and a check already in progress still publishes.
C28_NoCheckStartedWhileDisabled ==
    [][\A id \in Ids :
         /\ (pc[id] = "none" /\ pc'[id] # "none") => Monitored(id)
         /\ inflight'[id] > inflight[id] => Monitored(id)
         /\ (pc[id] = "select" /\ pc'[id] # "select" /\ ~Monitored(id))
            => (pc'[id] = "done" /\ inflight'[id] = 0)]_vars

\* The loop of w1 has published, w1 was disabled, and the loop has returned
\* at a tick, with the engine running.
C28_Witness ==
    /\ websites["w1"].present
    /\ ~websites["w1"].Enabled
    /\ published["w1"] # <<>>
    /\ pc["w1"] = "done"
    /\ stopChan = "open"

(* ------------------------ failing history append ----------------------- *)

\* C30: an iteration of the result handling goroutine of main whose history
\* append fails still takes the outcome off resultChan, makes the status
\* change check (SendStatusChange is called iff the status differs from the
\* previous one and the website exists), stores the status in previousStatus,
\* and leaves the goroutine ready for the next outcome.
C30_HistoryFailureChangesNothingElse ==
    /\ [][(aggSeen' # aggSeen /\ history' = history)
          => LET r    == Head(resultChan)
                 id   == r.WebsiteID
                 prev == previousStatus[id]
                 call == StatusChanged(prev, r.Status) /\ websites[id].present
             IN  /\ resultChan' = Tail(resultChan)
                 /\ previousStatus' = [previousStatus EXCEPT ![id] = r.Status]
                 /\ Len(sendLog') = Len(sendLog) + (IF call THEN 1 ELSE 0)
                 /\ notified' = IF call THEN notified \cup {<<id, r.n>>}
                                ELSE notified
                 /\ call => /\ Last(sendLog').WebsiteID = id
                            /\ Last(sendLog').at = now
                 /\ mainPc' = mainPc]_vars
    /\ []((mainPc \in Alive /\ resultChan # <<>>) => ENABLED MainHandle)

\* The first outcome of w1 was received by main's goroutine, its history
\* append failed, and its status is in previousStatus.
C30_Witness ==
    /\ <<"w1", 1>> \in aggSeen
    /\ "w1" \notin removed
    /\ history["w1"] = <<>>
    /\ SeenOf("w1") = {<<"w1", 1>>}
    /\ previousStatus["w1"] = published["w1"][1]


(* ------------------- claims on outcomes of removed targets ------------- *)

\* C35: a step that takes from resultChan an outcome whose website is not in
\* the registry leaves the registry as it was (no record is created, none is
\* changed) and sends no status change (nothing is logged by
\* SendStatusChange, nothing enters eventQueue, no outcome is marked
\* notified).
C35_LateOutcomeLeavesRegistry ==
    [][(/\ resultChan # <<>>
        /\ resultChan' = Tail(resultChan)
        /\ ~websites[Head(resultChan).WebsiteID].present)
       => /\ websites' = websites
          /\ sendLog' = sendLog
          /\ eventQueue' = eventQueue
          /\ notified' = notified]_vars

\* Two outcomes of a removed website, of different status, were handled after
\* its removal (Delete had emptied its history).
C35_Witness ==
    \E id \in removed :
        /\ ~websites[id].present
        /\ Len(history[id]) >= 2
        /\ history[id][1] # history[id][2]
        /\ sendLog = <<>>

\* C36: the history of a removed website stays empty.
C36_HistoryStaysAbsent ==
    \A id \in removed : history[id] = <<>>


(* ------------------- claims on delivery around Stop --------------------- *)

\* C37: every event SendStatusChange has accepted is handed to
\* handleStatusChange, and once: no call is handled twice, and once
\* processEvents has returned (after which nothing receives from eventQueue)
\* every accepted call has been handled.
C37_AcceptedEventsAreHandled ==
    /\ \A x, y \in 1..Len(handled) : handled[x] = handled[y] => x = y
    /\ nmLoop = "exited"
         => \A k \in Calls : sendLog[k].res = "queued" => Dequeued(k)


(* ------------------- the interval of a running loop --------------------- *)

\* The engine with its own receiver, and updates of interval and enabled
\* flag through the update endpoint.
NextInterval ==
    \/ MainStart
    \/ \E id \in Ids, status \in Statuses : Check(id, status)
    \/ \E id \in Ids : Tick(id)
    \/ ProcessResults
    \/ \E id \in Ids, iv \in ReqIntervals, en \in BOOLEAN : Put(id, iv, en)

SpecInterval == Init /\ [][NextInterval]_vars

\* C31: every check a running loop starts on a tick comes from a ticker whose
\* period is the interval the website's record has at that time, also after
\* an update has changed the interval.
C31_TicksFollowCurrentInterval ==
    [][\A id \in Ids :
          (pc[id] = "select" /\ pc'[id] = "check")
          => ticker[id] = websites[id].IntervalSeconds]_vars


(* -------------- SendStatusChange called by two goroutines --------------- *)

\* The number that stands for the event of caller c.
CallerK(c) == IF c = "a" THEN 1 ELSE 2

\* SendStatusChange, first part: the entry of lastNotified is read under
\* RLock, the lock is released, and the throttle test is made on the value
\* read; a throttled call returns.
SendCheck(c, id) ==
    /\ senders[c].at = "idle"
    /\ senders' = [senders EXCEPT ![c] =
                      IF Throttled(lastNotified[id], now)
                      THEN [at |-> "done", id |-> id,
                            last |-> lastNotified[id], res |-> "throttled"]
                      ELSE [at |-> "checked", id |-> id,
                            last |-> lastNotified[id], res |-> "none"]]
    /\ UNCHANGED <<coreVars, baseAux, loopVars, reply, saved, hfile>>

\* SendStatusChange, the select: the event is sent on eventQueue if there is
\* room, the default branch logs a warning and returns otherwise.
SendEnqueue(c) ==
    /\ senders[c].at = "checked"
    /\ IF Len(eventQueue) < EventQueueCap
       THEN /\ eventQueue' = Append(eventQueue,
                                    StatusChangeEvent(senders[c].id, "up",
                                                      "down", CallerK(c)))
            /\ senders' = [senders EXCEPT ![c].at = "enqueued"]
       ELSE /\ eventQueue' = eventQueue
            /\ senders' = [senders EXCEPT ![c].at = "done",
                                          ![c].res = "dropped"]
    /\ UNCHANGED <<engineVars, mainPc, aggVars, lastNotified, sendLog,
                   nmCtlVars, now, ghostVars, baseAux, loopVars, reply, saved,
                   hfile>>

\* SendStatusChange, send branch: Lock, lastNotified[id] = time.Now(), Unlock.
SendRecord(c) ==
    /\ senders[c].at = "enqueued"
    /\ lastNotified' = [lastNotified EXCEPT ![senders[c].id] = now]
    /\ senders' = [senders EXCEPT ![c].at = "done", ![c].res = "queued"]
    /\ UNCHANGED <<engineVars, mainPc, aggVars, eventQueue, sendLog,
                   nmCtlVars, now, ghostVars, baseAux, loopVars, reply, saved,
                   hfile>>

NextSendRace ==
    \/ NotifyStart
    \/ NMHandle
    \/ \E c \in Callers, id \in Ids : SendCheck(c, id)
    \/ \E c \in Callers : SendEnqueue(c)
    \/ \E c \in Callers : SendRecord(c)
    \/ \E d \in {1, ThrottleWindow} : AdvanceTime(d)

SpecSendRace == Init /\ [][NextSendRace]_vars

\* The call of c has put its event on eventQueue.
Enqueued(c) == senders[c].at = "enqueued" \/ senders[c].res = "queued"

\* C32: of two calls for the same website that both found no throttle entry,
\* at most one enqueues its event.
C32_AtMostOneEnqueued ==
    \A a, b \in Callers :
        (/\ a # b
         /\ senders[a].id = senders[b].id
         /\ senders[a].last = NoTime
         /\ senders[b].last = NoTime)
        => ~(Enqueued(a) /\ Enqueued(b))


(* ------------------ Start and Stop called more than once ---------------- *)

\* A caller stops the engine of the serving process; a panic (close of a
\* closed channel) ends the process.
LifeStop ==
    /\ mainPc = "serving"
    /\ EngineStop
    /\ mainPc' = IF stopChan = "open" THEN mainPc ELSE "exited"
    /\ UNCHANGED <<websites, resultChan, resultChanClosed, inflight, pc,
                   aggVars, nmVars, nmCtlVars, now, auxVars, ghostVars>>

\* A caller starts the engine of the serving process again.
LifeStart ==
    /\ mainPc = "serving"
    /\ EngineStart
    /\ UNCHANGED <<websites, stopChan, resultChan, resultChanClosed, mainPc,
                   aggVars, nmVars, nmCtlVars, now, baseAux, oldEvents,
                   callVars, ghostVars>>

\* A caller stops the notification manager of the serving process.
LifeNMStop ==
    /\ mainPc = "serving"
    /\ NMStop
    /\ mainPc' = IF nmStopChan = "open" THEN mainPc ELSE "exited"
    /\ UNCHANGED <<engineVars, aggVars, nmVars, now, auxVars, ghostVars>>

\* A caller starts the notification manager of the serving process again.
LifeNMStart ==
    /\ mainPc = "serving"
    /\ NMStart
    /\ UNCHANGED <<engineVars, mainPc, aggVars, nmVars, now, baseAux, ticker,
                   oldLoops, callVars, ghostVars>>

\* checkWebsite of a loop of an earlier Start returns and sends its outcome.
OldCheck(id, status) ==
    /\ mainPc # "exited"
    /\ oldLoops[id].check > 0
    /\ Len(resultChan) < ResultChanCap
    /\ resultChan' = Append(resultChan,
                            CheckResult(id, status, Len(published[id]) + 1))
    /\ published' = [published EXCEPT ![id] = Append(@, status)]
    /\ oldLoops' = [oldLoops EXCEPT ![id].check = @ - 1,
                                    ![id].select = @ + 1]
    /\ UNCHANGED <<websites, running, stopChan, resultChanClosed, inflight,
                   pc, mainPc, aggVars, nmVars, nmCtlVars, now, baseAux,
                   ticker, oldEvents, callVars, addedLive, removed,
                   queuedAtStop>>

\* `case <-ticker.C` in a loop of an earlier Start.
OldTick(id) ==
    /\ mainPc # "exited"
    /\ oldLoops[id].select > 0
    /\ IF websites[id].present /\ websites[id].Enabled
       THEN /\ Len(published[id]) + inflight[id] + oldLoops[id].check
                 < MaxChecks
            /\ oldLoops' = [oldLoops EXCEPT ![id].select = @ - 1,
                                            ![id].check = @ + 1]
       ELSE oldLoops' = [oldLoops EXCEPT ![id].select = @ - 1]
    /\ UNCHANGED <<engineVars, mainPc, aggVars, nmVars, nmCtlVars, now,
                   baseAux, ticker, oldEvents, callVars, ghostVars>>

\* `case <-me.stopChan` in a loop of an earlier Start.
OldStopObserved(id) ==
    /\ mainPc # "exited"
    /\ oldLoops[id].select > 0
    /\ stopChan = "closed"
    /\ oldLoops' = [oldLoops EXCEPT ![id].select = @ - 1]
    /\ UNCHANGED <<engineVars, mainPc, aggVars, nmVars, nmCtlVars, now,
                   baseAux, ticker, oldEvents, callVars, ghostVars>>

\* `case <-nm.stopChan` in a processEvents goroutine of an earlier Start.
OldNMExit ==
    /\ mainPc # "exited"
    /\ oldEvents > 0
    /\ nmStopChan = "closed"
    /\ oldEvents' = oldEvents - 1
    /\ UNCHANGED <<coreVars, baseAux, ticker, oldLoops, callVars>>

NextLife ==
    \/ MainStart
    \/ LifeStop
    \/ LifeStart
    \/ LifeNMStop
    \/ LifeNMStart
    \/ \E id \in Ids, status \in Statuses : Check(id, status)
    \/ \E id \in Ids : Tick(id)
    \/ \E id \in Ids : StopObserved(id)
    \/ \E id \in Ids, status \in Statuses : OldCheck(id, status)
    \/ \E id \in Ids : OldTick(id)
    \/ \E id \in Ids : OldStopObserved(id)
    \/ ProcessResults
    \/ \E id \in Ids : Delete(id)
    \/ NMExit
    \/ OldNMExit

SpecLife == Init /\ [][NextLife]_vars

\* C33: no Stop closes a stop channel that is already closed.
C33_StopChannelsClosedOnce ==
    stopChan # "panic" /\ nmStopChan # "panic"

\* The monitorWebsite goroutines of id that have not returned.
LoopsOf(id) ==
    (IF pc[id] \in {"check", "select"} THEN 1 ELSE 0)
    + oldLoops[id].check + oldLoops[id].select

\* C34: at most one monitoring loop exists per website.
C34_OneLoopPerTarget ==
    \A id \in Ids : LoopsOf(id) <= 1


(* ------------------ REST requests and their status codes ---------------- *)

\* Request bodies: well-formed with name and URL, not JSON, JSON without a
\* name or URL.
Bodies == {"ok", "malformed", "incomplete"}

\* `c.Ctx.Output.SetStatus(...)` of the error branches.
ErrorStatuses == {400, 404, 500}

Reply(op, id, status) ==
    [n |-> reply.n + 1, op |-> op, id |-> id, status |-> status]

\* WebsiteController.Post: 400 for a body that is not JSON or lacks name or
\* URL; otherwise the website is added, and the answer is 500 when
\* SaveWebsites fails afterwards.
PostRequest(id, iv, body, saveOk) ==
    /\ mainPc \in Alive
    /\ reply.n < MaxRequests
    /\ IF body # "ok"
       THEN /\ reply' = Reply("post", id, 400)
            /\ UNCHANGED <<coreVars, baseAux, loopVars, senders, saved, hfile>>
       ELSE /\ PostAccepted(id, iv)
            /\ reply' = Reply("post", id, IF saveOk THEN 200 ELSE 500)

\* WebsiteController.Put: 404 for an unknown id, 400 for a body that is not
\* JSON; otherwise the fields are written, and the answer is 500 when
\* SaveWebsites fails afterwards.
PutRequest(id, iv, en, body, saveOk) ==
    /\ mainPc \in Alive
    /\ reply.n < MaxRequests
    /\ IF ~websites[id].present
       THEN /\ reply' = Reply("put", id, 404)
            /\ UNCHANGED <<coreVars, baseAux, loopVars, senders, saved, hfile>>
       ELSE IF body = "malformed"
       THEN /\ reply' = Reply("put", id, 400)
            /\ UNCHANGED <<coreVars, baseAux, loopVars, senders, saved, hfile>>
       ELSE /\ PutFound(id, iv, en)
            /\ reply' = Reply("put", id, IF saveOk THEN 200 ELSE 500)

\* WebsiteController.Delete: 404 for an unknown id; otherwise the website
\* and its history are removed, and the answer is 500 when SaveWebsites
\* fails afterwards.
DeleteRequest(id, saveOk) ==
    /\ mainPc \in Alive
    /\ reply.n < MaxRequests
    /\ IF ~websites[id].present
       THEN /\ reply' = Reply("delete", id, 404)
            /\ UNCHANGED <<coreVars, baseAux, loopVars, senders, saved, hfile>>
       ELSE /\ DeleteFound(id)
            /\ reply' = Reply("delete", id, IF saveOk THEN 200 ELSE 500)

NextRest ==
    \/ MainStart
    \/ \E id \in Ids, iv \in ReqIntervals, body \in Bodies, saveOk \in BOOLEAN :
          PostRequest(id, iv, body, saveOk)
    \/ \E id \in Ids, iv \in ReqIntervals, en \in BOOLEAN,
          body \in {"ok", "malformed"}, saveOk \in BOOLEAN :
          PutRequest(id, iv, en, body, saveOk)
    \/ \E id \in Ids, saveOk \in BOOLEAN : DeleteRequest(id, saveOk)

SpecRest == Init /\ [][NextRest]_vars

\* C38: a request answered with 400, 404 or 500 leaves the registry as it
\* was.
C38_ErrorLeavesRegistry ==
    [][(reply'.n # reply.n /\ reply'.status \in ErrorStatuses)
       => websites' = websites]_vars


(* --------------------- the websites file at start-up -------------------- *)

\* C39: when the load of the websites file fails, the file is the same when
\* main starts serving as it was before.
C39_FailedLoadKeepsFile ==
    LoadWebsites(stored).err => saved = stored


(* ------------------------ one history file ------------------------------ *)

\* Storage.SaveHistory returns nil: entry number n + 1 is appended to what
\* the call read of the file, and the last HistoryLimit entries are written.
SaveHistoryCall(readOk) ==
    /\ hfile.n < MaxAppends
    /\ hfile' = [n |-> hfile.n + 1,
                 entries |-> SaveHistory(ReadHistory(hfile.entries, readOk),
                                         hfile.n + 1)]
    /\ UNCHANGED <<coreVars, baseAux, loopVars, senders, reply, saved>>

NextHistory == \E readOk \in BOOLEAN : SaveHistoryCall(readOk)

SpecHistory == Init /\ [][NextHistory]_vars

Min(a, b) == IF a < b THEN a ELSE b

\* C40: after n successful SaveHistory calls the file holds the last
\* min(n, 1000) entries appended, in the order of their appending.
C40_LastThousandInOrder ==
    LET n == hfile.n
        m == Min(n, HistoryLimit)
    IN  /\ Len(hfile.entries) = m
        /\ \A i \in 1..m : hfile.entries[i] = n - m + i

====
